---- MODULE Spec2Model ----
(***************************************************************************)
(* CarbonPilot: a sequential pipeline of two LLM agents (analyzer, then    *)
(* optimizer) driven by run_carbon_analysis, which builds the analyzer     *)
(* prompt from pre-computed emissions, collects the runner's events, cuts  *)
(* a JSON candidate out of the last event's text, parses it, renders two   *)
(* HTML files and opens them in the browser.                               *)
(*                                                                         *)
(* Texts are sequences of one-character tokens:                            *)
(*   "{" "}"  the braces the extraction looks for                          *)
(*   " "      JSON whitespace                                              *)
(*   "n"      a character that is not JSON (prose, markdown fence)         *)
(*   "k"      an object member with a scalar value, or the key of the      *)
(*            object that follows it                                       *)
(*   "a"      the member "analysis_results" of the analyzer's schema       *)
(*   "o"      the members of the optimizer's schema                        *)
(*   "d"      the members create_dashboard reads                           *)
(*   "r"      the further members create_detailed_report reads             *)
(* Percentages are integers counting hundredths of a percent.              *)
(***************************************************************************)
EXTENDS Integers, Sequences, FiniteSets, TLC

VARIABLES
  \* the JSON extraction on its own: one response text and what lines 133-153 make of it
  response, outcome, parse_pc,
  \* the analyzer stage on its own: the input, the product blocks of the prompt,
  \* the analyzer's four lists, the optimizer's two lists of recommendations
  carbon_data, prompt, analysis, an_pc, optimization_plan,
  \* one call of run_carbon_analysis after another: the position in the call, the
  \* number of the call, the sub-agent the SequentialAgent is running, each
  \* sub-agent's final text, the local variables events and analysis_results, the
  \* value returned, the two HTML files and the tabs the call opened, what the
  \* call printed about a failure and how often it called runner.run
  pc, run_no, stage, stage_output, events, analysis_results, results,
  dashboard_file, report_file, opened, printed, runner_calls,
  \* the business requirements: the file, the import of loop_agent in the
  \* running process, the module variable, the text inside loop_agent.instruction,
  \* the pipeline runs of the process and what the last one's prompt held
  requirements_file, loop_state, business_requirements, instruction_requirements,
  proc_runs, file_at_last_run, used_requirements,
  \* two calls of run_carbon_analysis at the same time in one working directory:
  \* each call's position, analysis_results, return value and opened tabs, and
  \* the two HTML files, which have the same names for both
  job_pc, job_analysis_results, job_results, job_opened,
  shared_dashboard_file, shared_report_file

extractVars == <<response, outcome, parse_pc>>

analyzerVars == <<carbon_data, prompt, analysis, an_pc, optimization_plan>>

runVars == <<pc, run_no, stage, stage_output, events, analysis_results, results,
             dashboard_file, report_file, opened, printed, runner_calls>>

reqVars == <<requirements_file, loop_state, business_requirements,
             instruction_requirements, proc_runs, file_at_last_run, used_requirements>>

concVars == <<job_pc, job_analysis_results, job_results, job_opened,
              shared_dashboard_file, shared_report_file>>

vars == <<extractVars, analyzerVars, runVars, reqVars, concVars>>

(* ------------------------------ bounds -------------------------------- *)

MaxTextLen == 6

MaxProducts == 3

MaxEvents == 3

MaxRuns == 2

(* ------------------------- program constants -------------------------- *)

\* "HIGH IMPACT: Products contributing >40% of total emissions"
HighThreshold == 40

\* "LOW IMPACT: Products contributing <15% of total emissions"
LowThreshold == 15

\* the ":.2f" of the prompt's "Percentage of Total"
PctDecimals == 2

(* ------------------------------- texts -------------------------------- *)

MemberTokens == {"k", "a", "o", "d", "r"}

RECURSIVE SeqsUpTo(_, _)
SeqsUpTo(S, n) ==
  IF n = 0 THEN {<<>>}
  ELSE LET shorter == SeqsUpTo(S, n - 1)
       IN  shorter \cup {Append(s, t) : s \in {x \in shorter : Len(x) = n - 1}, t \in S}

\* str.find: 0-based index of the first occurrence of ch, -1 when there is none
Find(text, ch) ==
  IF \E i \in 1..Len(text) : text[i] = ch
  THEN (CHOOSE i \in 1..Len(text) :
          text[i] = ch /\ \A j \in 1..(i - 1) : text[j] # ch) - 1
  ELSE -1

\* str.rfind: 0-based index of the last occurrence of ch, -1 when there is none
RFindFirstMutant(text, ch) == Find(text, ch)

RFind(text, ch) ==
  IF \E i \in 1..Len(text) : text[i] = ch
  THEN (CHOOSE i \in 1..Len(text) :
          text[i] = ch /\ \A j \in (i + 1)..Len(text) : text[j] # ch) - 1
  ELSE -1

\* text[a:b] for 0 <= a, 0 <= b <= len(text): empty when b <= a
PySliceShortMutant(text, a, b) ==
  IF b - 1 <= a THEN <<>> ELSE [i \in 1..(b - 1 - a) |-> text[a + i]]

PySlice(text, a, b) ==
  IF b <= a THEN <<>> ELSE [i \in 1..(b - a) |-> text[a + i]]

\* json.loads skips whitespace between tokens
StripWs(text) == SelectSeq(text, LAMBDA t : t # " ")

\* One scan of a whitespace-free text: the text is one JSON object when it
\* opens with a brace, every later opening brace is the value of the member
\* right before it, the first brace closes at the last token and nothing is not JSON.
RECURSIVE ScanObject(_, _, _)
ScanObject(s, i, depth) ==
  IF i > Len(s) THEN depth = 0
  ELSE IF s[i] = "{"
       THEN (i = 1 \/ s[i - 1] \in MemberTokens) /\ ScanObject(s, i + 1, depth + 1)
  ELSE IF s[i] = "}"
       THEN depth >= 1 /\ (depth > 1 \/ i = Len(s)) /\ ScanObject(s, i + 1, depth - 1)
  ELSE IF s[i] \in MemberTokens
       THEN depth >= 1 /\ ScanObject(s, i + 1, depth)
  ELSE FALSE

IsJsonObject(s) == Len(s) >= 2 /\ s[1] = "{" /\ ScanObject(s, 1, 0)

\* json.loads on a candidate: the parsed dictionary (written as its text without
\* whitespace), or JSONDecodeError
json_loads(s) ==
  IF IsJsonObject(StripWs(s))
  THEN [ok |-> TRUE, value |-> StripWs(s)]
  ELSE [ok |-> FALSE, value |-> <<>>]

\* Lines 135-151 of run_carbon_analysis: the candidate between the first "{" and
\* the last "}", and what json.loads makes of it.
ExtractJson(analysis_text) ==
  LET start_idx == Find(analysis_text, "{")
      end_idx   == RFind(analysis_text, "}") + 1
  IN  IF start_idx = -1 \/ end_idx = 0
      THEN [kind |-> "not_found", json_str |-> <<>>, value |-> <<>>]
      ELSE LET json_str == PySlice(analysis_text, start_idx, end_idx)
               parsed   == json_loads(json_str)
           IN  IF parsed.ok
               THEN [kind |-> "parsed", json_str |-> json_str, value |-> parsed.value]
               ELSE [kind |-> "decode_error", json_str |-> json_str, value |-> <<>>]

(* ------------------------- analyzer arithmetic ------------------------ *)

Scale == 10 ^ PctDecimals

\* f"{(total_emissions / summary_total * 100):.2f}": the ratio in percent rounded
\* to two decimals (ties to even), as hundredths of a percent; summary_total > 0
Pct2TruncMutant(total_emissions, summary_total) ==
  (100 * Scale * total_emissions) \div summary_total

Pct2(total_emissions, summary_total) ==
  LET num == 100 * Scale * total_emissions
      q   == num \div summary_total
      rem == num % summary_total
  IN  IF 2 * rem > summary_total THEN q + 1
      ELSE IF 2 * rem < summary_total THEN q
      ELSE IF q % 2 = 0 THEN q ELSE q + 1

\* IMPACT CATEGORIZATION of the analyzer's instruction, one line each
IsHighInclusiveMutant(p) == p >= HighThreshold * Scale

IsHigh(p) == p > HighThreshold * Scale

IsMediumExclusiveMutant(p) == LowThreshold * Scale < p /\ p < HighThreshold * Scale

IsMedium(p) == LowThreshold * Scale <= p /\ p <= HighThreshold * Scale

IsLowInclusiveMutant(p) == p <= LowThreshold * Scale

IsLow(p) == p < LowThreshold * Scale

(* ------------------- specification: JSON extraction ------------------- *)

ExtractAlphabet == {"{", "}", " ", "n", "k"}

NoOutcome == [kind |-> "none", json_str |-> <<>>, value |-> <<>>]

ExtractIdle == response = <<>> /\ outcome = NoOutcome /\ parse_pc = "off"

\* the optimizer's output schema with both lists empty
NoPlan == [high_impact_recommendations |-> <<>>, medium_impact_recommendations |-> <<>>]

AnalyzerIdle ==
  /\ optimization_plan = NoPlan
  /\ carbon_data = [products |-> <<>>, total_emissions |-> 0]
  /\ prompt = <<>>
  /\ analysis = [high_impact |-> <<>>, medium_impact |-> <<>>,
                 low_impact |-> <<>>, unprocessed_items |-> <<>>]
  /\ an_pc = "off"

\* None, as a text, a dictionary or a return value
None == <<"None">>

\* an HTML file that does not exist; one that exists holds the dictionary it was
\* rendered from and the number of the call that wrote it
NoFile == [run |-> 0, doc |-> <<>>]

\* business_requirements.json: absent, present with a content, or present and unreadable
NoRequirementsFile == [state |-> "absent", content |-> <<>>]

RunIdle ==
  /\ pc = "off" /\ run_no = 0 /\ stage = "off"
  /\ stage_output = [analyzer_agent |-> None, optimizer_agent |-> None]
  /\ events = <<>> /\ analysis_results = None /\ results = None
  /\ dashboard_file = NoFile /\ report_file = NoFile /\ opened = <<>>
  /\ printed = {} /\ runner_calls = 0

ReqIdle ==
  /\ requirements_file = NoRequirementsFile /\ loop_state = "off"
  /\ business_requirements = None /\ instruction_requirements = None
  /\ proc_runs = 0 /\ file_at_last_run = NoRequirementsFile /\ used_requirements = None

\* the two concurrent calls
Jobs == {1, 2}

ConcIdle ==
  /\ job_pc = [j \in Jobs |-> "off"]
  /\ job_analysis_results = [j \in Jobs |-> None]
  /\ job_results = [j \in Jobs |-> None]
  /\ job_opened = [j \in Jobs |-> <<>>]
  /\ shared_dashboard_file = NoFile /\ shared_report_file = NoFile

InitExtract ==
  /\ response \in SeqsUpTo(ExtractAlphabet, MaxTextLen)
  /\ outcome = NoOutcome
  /\ parse_pc = "text"
  /\ AnalyzerIdle /\ RunIdle /\ ReqIdle /\ ConcIdle

\* run_carbon_analysis from "if not analysis_text" to the second "Analysis
\* Complete!": return None on an empty text, on no JSON found and on a
\* JSONDecodeError, else go on to Step 5 with analysis_results
ParseResponse ==
  /\ parse_pc = "text"
  /\ IF response = <<>>
     THEN outcome' = [kind |-> "no_text", json_str |-> <<>>, value |-> <<>>]
     ELSE outcome' = ExtractJson(response)
  /\ parse_pc' = IF outcome'.kind = "parsed" THEN "visualize" ELSE "returned_none"
  /\ UNCHANGED <<response, analyzerVars, runVars, reqVars, concVars>>

NextExtract == ParseResponse

SpecExtract == InitExtract /\ [][NextExtract]_vars

(* ------------------- specification: analyzer stage -------------------- *)

\* total_emissions of a product: the sample's 5550, 1500, 1060 and values that
\* are below, at and above the two thresholds when the summary total is 100, and
\* 1601, which is 40.004...% of 4002
EmissionValues == {14, 15, 40, 41, 1060, 1500, 1601, 5550}

\* summary.total_emissions: the sample's 8110, 100, 4002, and 0
TotalValues == {0, 100, 4002, 8110}

sample_carbon_data ==
  [products |-> << [total_emissions |-> 5550],
                   [total_emissions |-> 1500],
                   [total_emissions |-> 1060] >>,
   total_emissions |-> 8110]

NoAnalysis ==
  [high_impact |-> <<>>, medium_impact |-> <<>>,
   low_impact |-> <<>>, unprocessed_items |-> <<>>]

InitAnalyzer ==
  /\ carbon_data \in
       [products : SeqsUpTo([total_emissions : EmissionValues], MaxProducts),
        total_emissions : TotalValues]
  /\ prompt = <<>>
  /\ analysis = NoAnalysis
  /\ optimization_plan = NoPlan
  /\ an_pc = "input"
  /\ ExtractIdle /\ RunIdle /\ ReqIdle /\ ConcIdle

\* one product's block of the prompt: the product's own values as they are, and
\* "Percentage of Total", which is computed here from the product's total and
\* the summary's total
PromptBlockSummaryTotalMutant(product, summary_total) ==
  [total_emissions |-> summary_total,
   percentage |-> Pct2(product.total_emissions, summary_total)]

PromptBlock(product, summary_total) ==
  [total_emissions |-> product.total_emissions,
   percentage |-> Pct2(product.total_emissions, summary_total)]

\* Step 2 of run_carbon_analysis: one block per product, in input order, with
\* the percentage computed here; a zero summary total raises ZeroDivisionError
\* at the first product
BuildPrompt ==
  /\ an_pc = "input"
  /\ IF carbon_data.total_emissions = 0 /\ carbon_data.products # <<>>
     THEN /\ an_pc' = "raised"
          /\ prompt' = prompt
     ELSE /\ an_pc' = "prompted"
          /\ prompt' = [i \in 1..Len(carbon_data.products) |->
               PromptBlock(carbon_data.products[i], carbon_data.total_emissions)]
  /\ UNCHANGED <<carbon_data, analysis, optimization_plan, extractVars, runVars, reqVars,
                 concVars>>

\* the items of one list of the analyzer's output, in input order
ItemsOf(blocks, chosen) ==
  LET idx  == [i \in 1..Len(blocks) |-> i]
      kept == SelectSeq(idx, LAMBDA i : i \in chosen)
  IN  [k \in 1..Len(kept) |->
         [product |-> kept[k], emission_percentage |-> blocks[kept[k]].percentage]]

\* The analyzer's answer as its instruction prescribes it: every product it can
\* process goes to the list of each impact line that holds of the percentage it
\* was given; the products it reports an error for go to unprocessed_items.
AnalyzerRespond ==
  /\ an_pc = "prompted"
  /\ \E failed \in SUBSET (1..Len(prompt)) :
       LET ok == (1..Len(prompt)) \ failed
       IN  analysis' =
             [high_impact |-> ItemsOf(prompt, {i \in ok : IsHigh(prompt[i].percentage)}),
              medium_impact |-> ItemsOf(prompt, {i \in ok : IsMedium(prompt[i].percentage)}),
              low_impact |-> ItemsOf(prompt, {i \in ok : IsLow(prompt[i].percentage)}),
              unprocessed_items |-> ItemsOf(prompt, failed)]
  /\ an_pc' = "analyzed"
  /\ UNCHANGED <<carbon_data, prompt, optimization_plan, extractVars, runVars, reqVars,
                 concVars>>

\* the recommendations the optimizer's instruction asks for from one list of the
\* analysis: "For each high and medium impact product", one entry with the
\* product_name "from input"
RecommendationsWithLowMutant(input, list) ==
  [k \in 1..(Len(input[list]) + Len(input.low_impact)) |->
     [product |-> (input[list] \o input.low_impact)[k].product]]

Recommendations(input, list) ==
  [k \in 1..Len(input[list]) |-> [product |-> input[list][k].product]]

\* The optimizer's answer as its instruction prescribes it: "You ONLY focus on
\* the 'high_impact' and 'medium_impact' categories provided. Ignore 'low_impact'
\* items"; the schema has a list of recommendations for each of the two.
OptimizerRespond ==
  /\ an_pc = "analyzed"
  /\ optimization_plan' =
       [high_impact_recommendations |-> Recommendations(analysis, "high_impact"),
        medium_impact_recommendations |-> Recommendations(analysis, "medium_impact")]
  /\ an_pc' = "optimized"
  /\ UNCHANGED <<carbon_data, prompt, analysis, extractVars, runVars, reqVars, concVars>>

NextAnalyzer == BuildPrompt \/ AnalyzerRespond \/ OptimizerRespond

SpecAnalyzer == InitAnalyzer /\ [][NextAnalyzer]_vars

(* ----------------------- claims: JSON extraction ---------------------- *)

Positions(text, ch) == {i \in 1..Len(text) : text[i] = ch}

SetMin(S) == CHOOSE x \in S : \A y \in S : x <= y

SetMax(S) == CHOOSE x \in S : \A y \in S : y <= x

\* the tokens of text at the positions i..j (none when j < i)
Between(text, i, j) == [k \in 1..(j - i + 1) |-> text[i + k - 1]]

BraceFree(text) == \A i \in 1..Len(text) : text[i] \notin {"{", "}"}

\* no part of the text is a JSON object
NonJson(text) ==
  \A i \in 1..Len(text) : \A j \in i..Len(text) : ~json_loads(Between(text, i, j)).ok

Parsed == parse_pc \in {"visualize", "returned_none"} /\ response # <<>>

\* C4 as claimed: a text without "{" or without "}" gives the not-found result
\* and the run returns None; every other text hands the JSON parser exactly the
\* substring from the first "{" through the last "}", both included.
C4_CandidateIsFirstToLastBrace ==
  Parsed =>
    IF Positions(response, "{") = {} \/ Positions(response, "}") = {}
    THEN outcome.kind = "not_found" /\ parse_pc = "returned_none"
    ELSE LET first == SetMin(Positions(response, "{"))
             last  == SetMax(Positions(response, "}"))
             cand  == outcome.json_str
         IN  /\ outcome.kind \in {"parsed", "decode_error"}
             /\ cand = Between(response, first, last)
             /\ Len(cand) >= 2 /\ cand[1] = "{" /\ cand[Len(cand)] = "}"

\* C4 amended: as claimed when the first "{" comes before the last "}"; when
\* every "}" comes before the first "{" the candidate is the empty string, which
\* the JSON parser rejects, and the run returns None.
C4_CandidateReference ==
  Parsed =>
    IF Positions(response, "{") = {} \/ Positions(response, "}") = {}
    THEN outcome.kind = "not_found" /\ parse_pc = "returned_none"
    ELSE LET first == SetMin(Positions(response, "{"))
             last  == SetMax(Positions(response, "}"))
             cand  == outcome.json_str
         IN  IF first < last
             THEN /\ outcome.kind \in {"parsed", "decode_error"}
                  /\ cand = Between(response, first, last)
                  /\ cand[1] = "{" /\ cand[Len(cand)] = "}"
             ELSE /\ outcome.kind = "decode_error"
                  /\ cand = <<>>
                  /\ parse_pc = "returned_none"

\* a parsed candidate with text before it, text after it and an inner object
C4_Witness ==
  /\ Parsed /\ outcome.kind = "parsed"
  /\ SetMin(Positions(response, "{")) > 1
  /\ SetMax(Positions(response, "}")) < Len(response)
  /\ Cardinality(Positions(response, "}")) >= 2

Count(list, i) == Cardinality({k \in 1..Len(list) : list[k].product = i})

InBuckets(i) ==
  Count(analysis.high_impact, i) + Count(analysis.medium_impact, i)
    + Count(analysis.low_impact, i)

Products == 1..Len(carbon_data.products)

\* the bucket the thresholds give a percentage p (hundredths of a percent)
RuleBucket(p) ==
  IF p > 4000 THEN "high_impact" ELSE IF p >= 1500 THEN "medium_impact" ELSE "low_impact"

PlacedByRule(i) ==
  /\ InBuckets(i) = 1
  /\ Count(analysis[RuleBucket(prompt[i].percentage)], i) = 1

SamplePrompted == carbon_data = sample_carbon_data /\ an_pc \in {"prompted", "analyzed"}

SampleBuckets ==
  (an_pc = "analyzed" /\ analysis.unprocessed_items = <<>>) =>
     /\ analysis.high_impact = << [product |-> 1, emission_percentage |-> prompt[1].percentage] >>
     /\ analysis.medium_impact = << [product |-> 2, emission_percentage |-> prompt[2].percentage] >>
     /\ analysis.low_impact = << [product |-> 3, emission_percentage |-> prompt[3].percentage] >>

Recommended(i) ==
  Count(optimization_plan.high_impact_recommendations, i)
    + Count(optimization_plan.medium_impact_recommendations, i)

PromptBuilt == an_pc \in {"prompted", "analyzed", "optimized"}

\* the numbers of the input, in hundredths
InputNumbers ==
  {carbon_data.products[i].total_emissions * Scale : i \in Products}
    \cup {carbon_data.total_emissions * Scale}

Abs(x) == IF x < 0 THEN -x ELSE x

ExactBucket(total_emissions, summary_total) ==
  IF 100 * total_emissions > HighThreshold * summary_total THEN "high_impact"
  ELSE IF 100 * total_emissions >= LowThreshold * summary_total THEN "medium_impact"
  ELSE "low_impact"

\* C23 as claimed: for every product of a prompt, the thresholds give the
\* two-decimal percentage written into the prompt the same bucket as they give
\* the exact ratio of the product's total emissions to the summary's total.
C23_RoundedBucketIsExactBucket ==
  PromptBuilt =>
    \A i \in Products :
      RuleBucket(prompt[i].percentage)
        = ExactBucket(carbon_data.products[i].total_emissions, carbon_data.total_emissions)

\* the items the analyzer placed whose percentage is exactly p
PlacedAt(p) ==
  {i \in Products : prompt[i].percentage = p /\ Count(analysis.unprocessed_items, i) = 0}

OnlyIn(i, list) == Count(analysis[list], i) = 1 /\ InBuckets(i) = 1

\* C19 as claimed: an item at exactly 40 percent is Medium and an item at
\* exactly 15 percent is Low.
C19_TiesGoToLowerBucket ==
  an_pc = "analyzed" =>
    /\ \A i \in PlacedAt(HighThreshold * Scale) : OnlyIn(i, "medium_impact")
    /\ \A i \in PlacedAt(LowThreshold * Scale) : OnlyIn(i, "low_impact")

\* C19 amended: an item at exactly 40 percent is Medium and an item at exactly
\* 15 percent is Medium too: both ends of "15-40%" belong to Medium.
C19_BothTiesAreMedium ==
  an_pc = "analyzed" =>
    /\ \A i \in PlacedAt(HighThreshold * Scale) : OnlyIn(i, "medium_impact")
    /\ \A i \in PlacedAt(LowThreshold * Scale) : OnlyIn(i, "medium_impact")

\* an analysis that placed an item at exactly 40.00, one at exactly 15.00 and
\* one just below, at 14.00
C19_Witness ==
  /\ an_pc = "analyzed"
  /\ PlacedAt(HighThreshold * Scale) # {}
  /\ PlacedAt(LowThreshold * Scale) # {}
  /\ PlacedAt((LowThreshold - 1) * Scale) # {}
  /\ analysis.unprocessed_items = <<>>

(* ------------------ specification: run_carbon_analysis ---------------- *)

ProseText == <<"n">>

AnalyzerJson == <<"{", "a", "}">>

OptimizerJson == <<"{", "o", "}">>

DashboardOnlyJson == <<"n", "{", "d", "}">>

VisualizerJson == <<"{", "d", "r", "}">>

\* a part without text (part.text empty or None)
NoText == <<>>

\* event.content.parts of the events the runner yields; <<>> is an event without
\* content or without parts
PartsMenu ==
  { <<>>, <<ProseText>>, <<AnalyzerJson>>, <<OptimizerJson>>, <<DashboardOnlyJson>>,
    <<VisualizerJson>>, <<NoText, VisualizerJson>>, <<OptimizerJson, VisualizerJson>> }

SubAgents == <<"analyzer_agent", "optimizer_agent">>

\* the values formatted into an agent's instruction when its module is imported:
\* only loop_agent's instruction is an f-string, with {business_requirements};
\* the instructions of analyzer_agent and optimizer_agent are plain strings
InstructionFields(agent) ==
  IF agent = "loop_agent" THEN {"business_requirements"} ELSE {}

\* root_agent: the SequentialAgent runs its sub_agents in list order, each after
\* the one before it has given its final response; nothing is checked in between
NextStageRestartMutant(s) == "analyzer_agent"

NextStage(s) == IF s = "analyzer_agent" THEN "optimizer_agent" ELSE "end"

\* the first part of an event that has a non-empty text, None without one
FirstTextLastPartMutant(parts) ==
  IF \E i \in 1..Len(parts) : parts[i] # NoText
  THEN parts[SetMax({i \in 1..Len(parts) : parts[i] # NoText})]
  ELSE None

FirstText(parts) ==
  IF \E i \in 1..Len(parts) : parts[i] # NoText
  THEN parts[SetMin({i \in 1..Len(parts) : parts[i] # NoText})]
  ELSE None

\* the members at the top level of a parsed dictionary
TopMembers(doc) ==
  {doc[i] : i \in {j \in 1..Len(doc) :
      /\ doc[j] \in MemberTokens
      /\ Cardinality(Positions(Between(doc, 1, j), "{"))
           - Cardinality(Positions(Between(doc, 1, j), "}")) = 1}}

\* create_dashboard reads impact_categories, material_insights and
\* top_emitters_ranking and raises KeyError without them
DashboardRenders(doc) == "d" \in TopMembers(doc)

\* create_detailed_report reads the same and percentage_of_total,
\* analysis_summary, key_patterns and optimization_priorities
ReportRenders(doc) == {"d", "r"} \subseteq TopMembers(doc)

\* the output schema each sub-agent's instruction declares
DeclaredMembers(agent) == IF agent = "analyzer_agent" THEN {"a"} ELSE {"o"}

\* a text that parses as the schema the agent declares
Conforms(agent, text) ==
  /\ text # None
  /\ ExtractJson(text).kind = "parsed"
  /\ TopMembers(ExtractJson(text).value) = DeclaredMembers(agent)

InitRun ==
  /\ pc = "idle" /\ run_no = 0 /\ stage = "off"
  /\ stage_output = [analyzer_agent |-> None, optimizer_agent |-> None]
  /\ events = <<>> /\ analysis_results = None /\ results = None
  /\ dashboard_file = NoFile /\ report_file = NoFile /\ opened = <<>>
  /\ printed = {} /\ runner_calls = 0
  /\ ExtractIdle /\ AnalyzerIdle /\ ReqIdle /\ ConcIdle

\* run_carbon_analysis up to "for event in runner.run(root_agent, prompt)": the
\* summary prints and the prompt are built outside the try, so a missing key
\* or a zero summary total leaves the call with an exception; else runner.run
\* is called, once
StartRun(input) ==
  /\ pc \in {"idle", "returned", "raised"}
  /\ run_no < MaxRuns
  /\ run_no' = run_no + 1
  /\ events' = <<>> /\ analysis_results' = None /\ results' = None
  /\ opened' = <<>> /\ printed' = {}
  /\ stage_output' = [analyzer_agent |-> None, optimizer_agent |-> None]
  /\ IF input = "well_formed"
     THEN pc' = "collect" /\ stage' = "analyzer_agent" /\ runner_calls' = 1
     ELSE pc' = "raised" /\ stage' = "off" /\ runner_calls' = 0
  /\ UNCHANGED <<dashboard_file, report_file, extractVars, analyzerVars, reqVars, concVars>>

\* the runner yields an event of the sub-agent it is running and the loop
\* appends it; with its final response the sub-agent's text is kept under its
\* output_key and the next sub-agent starts
RunnerYield(parts, final) ==
  /\ pc = "collect"
  /\ stage \in {"analyzer_agent", "optimizer_agent"}
  /\ Len(events) < MaxEvents
  /\ events' = Append(events, [author |-> stage, parts |-> parts, final |-> final])
  /\ IF final
     THEN /\ stage_output' = [stage_output EXCEPT ![stage] = FirstText(parts)]
          /\ stage' = NextStage(stage)
     ELSE UNCHANGED <<stage_output, stage>>
  /\ UNCHANGED <<pc, run_no, analysis_results, results, dashboard_file, report_file,
                 opened, printed, runner_calls, extractVars, analyzerVars, reqVars,
                 concVars>>

\* the ways the call returns None, each with what it prints before: the three
\* checks of Step 4, the two JSON error branches (both print the response
\* text), and "except Exception", which prints str(e) and the troubleshooting list
ReturnNone(report) ==
  /\ pc' = "returned"
  /\ results' = None
  /\ printed' = report

NoEventsReport == {"No events received from agent"}

NoTextReport == {"Could not extract text from agent response"}

NoJsonReport == {"No JSON found in agent response", "raw_response"}

DecodeErrorReport == {"Failed to parse JSON from agent response", "parse_error", "raw_response"}

ExceptionReport(e) == {"Error during analysis", e, "Troubleshooting"}

\* runner.run raises while the loop iterates it: "except Exception" returns
\* None; runner.run is not called again
RunnerRaiseRetryMutant ==
  /\ pc = "collect"
  /\ runner_calls' = runner_calls + 1
  /\ events' = <<>> /\ stage' = "analyzer_agent"
  /\ UNCHANGED <<pc, run_no, stage_output, analysis_results, results, printed,
                 dashboard_file, report_file, opened, extractVars, analyzerVars, reqVars,
                 concVars>>

RunnerRaise ==
  /\ pc = "collect"
  /\ ReturnNone(ExceptionReport("UpstreamError"))
  /\ UNCHANGED <<run_no, stage, stage_output, events, analysis_results, runner_calls,
                 dashboard_file, report_file, opened, extractVars, analyzerVars, reqVars,
                 concVars>>

\* the generator ends; Step 4 takes the last event's first text, cuts the JSON
\* candidate out of it and parses it
RunnerDone ==
  /\ pc = "collect"
  /\ LET final_event   == events[Len(events)]
         analysis_text == FirstText(final_event.parts)
     IN  IF events = <<>>
         THEN ReturnNone(NoEventsReport) /\ UNCHANGED analysis_results
         ELSE IF analysis_text = None
         THEN ReturnNone(NoTextReport) /\ UNCHANGED analysis_results
         ELSE IF ExtractJson(analysis_text).kind = "not_found"
         THEN ReturnNone(NoJsonReport) /\ UNCHANGED analysis_results
         ELSE IF ExtractJson(analysis_text).kind # "parsed"
         THEN ReturnNone(DecodeErrorReport) /\ UNCHANGED analysis_results
         ELSE /\ analysis_results' = ExtractJson(analysis_text).value
              /\ pc' = "save_dashboard"
              /\ UNCHANGED <<results, printed>>
  /\ UNCHANGED <<run_no, stage, stage_output, events, dashboard_file, report_file,
                 opened, runner_calls, extractVars, analyzerVars, reqVars, concVars>>

\* save_dashboard(analysis_results, "carbon_analysis_dashboard.html"):
\* create_dashboard, then fig.write_html
SaveDashboard ==
  /\ pc = "save_dashboard"
  /\ IF DashboardRenders(analysis_results)
     THEN /\ dashboard_file' = [run |-> run_no, doc |-> analysis_results]
          /\ pc' = "save_report"
          /\ UNCHANGED <<results, printed>>
     ELSE ReturnNone(ExceptionReport("KeyError")) /\ UNCHANGED dashboard_file
  /\ UNCHANGED <<run_no, stage, stage_output, events, analysis_results, report_file,
                 opened, runner_calls, extractVars, analyzerVars, reqVars, concVars>>

\* save_report(analysis_results, "carbon_analysis_report.html"):
\* create_detailed_report, then open(filename, "w") and write
SaveReportSkipMutant ==
  /\ pc = "save_report"
  /\ pc' = "open_dashboard"
  /\ UNCHANGED <<run_no, stage, stage_output, events, analysis_results, results,
                 dashboard_file, report_file, opened, printed, runner_calls,
                 extractVars, analyzerVars, reqVars, concVars>>

SaveReport ==
  /\ pc = "save_report"
  /\ IF ReportRenders(analysis_results)
     THEN /\ report_file' = [run |-> run_no, doc |-> analysis_results]
          /\ pc' = "open_dashboard"
          /\ UNCHANGED <<results, printed>>
     ELSE ReturnNone(ExceptionReport("KeyError")) /\ UNCHANGED report_file
  /\ UNCHANGED <<run_no, stage, stage_output, events, analysis_results, dashboard_file,
                 opened, runner_calls, extractVars, analyzerVars, reqVars, concVars>>

\* webbrowser.open of the dashboard's path: the tab shows the file as it is now
OpenDashboard ==
  /\ pc = "open_dashboard"
  /\ opened' = Append(opened, [file |-> "dashboard", shows |-> dashboard_file])
  /\ pc' = "open_report"
  /\ UNCHANGED <<run_no, stage, stage_output, events, analysis_results, results,
                 dashboard_file, report_file, printed, runner_calls,
                 extractVars, analyzerVars, reqVars, concVars>>

\* webbrowser.open of the report's path, then return analysis_results
OpenReport ==
  /\ pc = "open_report"
  /\ opened' = Append(opened, [file |-> "report", shows |-> report_file])
  /\ results' = analysis_results
  /\ pc' = "returned"
  /\ UNCHANGED <<run_no, stage, stage_output, events, analysis_results,
                 dashboard_file, report_file, printed, runner_calls,
                 extractVars, analyzerVars, reqVars, concVars>>

InputKinds == {"well_formed", "missing_key", "zero_total"}

Next ==
  \/ \E input \in InputKinds : StartRun(input)
  \/ \E parts \in PartsMenu : \E final \in BOOLEAN : RunnerYield(parts, final)
  \/ RunnerRaise
  \/ RunnerDone
  \/ SaveDashboard
  \/ SaveReport
  \/ OpenDashboard
  \/ OpenReport

Spec == InitRun /\ [][Next]_vars

(* -------------------- claims: run_carbon_analysis --------------------- *)

Rendering == pc \in {"save_dashboard", "save_report", "open_dashboard", "open_report"}

\* C6 as claimed: a sub-agent's output that does not parse as its declared schema
\* fails the run: the next sub-agent never starts after such an output, and the
\* call never goes on to render with one.
C6_RunFailsOnSchemaViolation ==
  /\ stage \in {"optimizer_agent", "end"}
       => Conforms("analyzer_agent", stage_output.analyzer_agent)
  /\ Rendering =>
       /\ Conforms("analyzer_agent", stage_output.analyzer_agent)
       /\ Conforms("optimizer_agent", stage_output.optimizer_agent)

\* C7 as claimed: a call that returned None has written neither HTML file.
C7_NothingPersistedOnFailure ==
  (pc = "returned" /\ results = None) =>
     /\ dashboard_file.run # run_no
     /\ report_file.run # run_no

EventsOf(agent) == {k \in 1..Len(events) : events[k].author = agent}

FinalsOf(agent) == {k \in EventsOf(agent) : events[k].final}

\* C11 as claimed: the sub-agent that runs after the analyzer is given the
\* analyzer's final response and the business requirements text (or its
\* placeholder), which its instruction holds.
C11_OptimizerReceivesRequirements ==
  \A k \in EventsOf(SubAgents[2]) :
    /\ \E j \in FinalsOf(SubAgents[1]) : j < k
    /\ "business_requirements" \in InstructionFields(SubAgents[2])

\* C12: the events of a call are the analyzer's, then the optimizer's; the
\* optimizer is running only after the analyzer's final response and before its
\* own, the analyzer only before its final response, so never both; every event
\* of the optimizer comes after the analyzer's final response, whose text is
\* what is kept under the analyzer's output_key.
C12_StagesRunInOrder ==
  /\ \A j \in EventsOf("optimizer_agent") : \A k \in EventsOf("analyzer_agent") : k < j
  /\ \A k \in EventsOf("optimizer_agent") :
       \E j \in FinalsOf("analyzer_agent") :
         j < k /\ stage_output.analyzer_agent = FirstText(events[j].parts)
  /\ \A a \in {"analyzer_agent", "optimizer_agent"} :
       \A j \in FinalsOf(a) : \A k \in EventsOf(a) : k <= j
  /\ stage = "analyzer_agent" =>
       FinalsOf("analyzer_agent") = {} /\ EventsOf("optimizer_agent") = {}
  /\ stage = "optimizer_agent" =>
       FinalsOf("analyzer_agent") # {} /\ FinalsOf("optimizer_agent") = {}
  /\ stage = "end" =>
       FinalsOf("analyzer_agent") # {} /\ FinalsOf("optimizer_agent") # {}
  /\ stage = "off" => events = <<>>

\* a call with an intermediate event of the analyzer, its final response with
\* the analysis, and the final response of the optimizer
C12_Witness ==
  /\ Len(events) = 3
  /\ events[1].author = "analyzer_agent" /\ ~events[1].final
  /\ events[2].author = "analyzer_agent" /\ events[2].final
  /\ stage_output.analyzer_agent = AnalyzerJson
  /\ events[3].author = "optimizer_agent" /\ events[3].final
  /\ stage = "end"

\* C14 as claimed: a call whose parsed dictionary has the members of the
\* analyzer's declared schema, or of the optimizer's, renders both HTML files
\* and returns the dictionary.
C14_DeclaredSchemaRenders ==
  (pc = "returned" /\ analysis_results # None
     /\ TopMembers(analysis_results)
           \in {DeclaredMembers(SubAgents[i]) : i \in 1..Len(SubAgents)})
  => /\ results = analysis_results
     /\ dashboard_file = [run |-> run_no, doc |-> analysis_results]
     /\ report_file = [run |-> run_no, doc |-> analysis_results]

\* C15 as claimed: when both sub-agents have given their final response, the
\* analyzer's in its declared schema, and the call succeeds, the dictionary
\* returned and rendered is the one in the analyzer's final response.
C15_ReturnsAnalyzerResult ==
  (pc = "returned" /\ results # None /\ stage = "end"
     /\ Conforms("analyzer_agent", stage_output.analyzer_agent)) =>
     /\ results = ExtractJson(stage_output.analyzer_agent).value
     /\ dashboard_file.doc = ExtractJson(stage_output.analyzer_agent).value

\* the text Step 4 took from the last event, None without events or text
LastText == IF events = <<>> THEN None ELSE FirstText(events[Len(events)].parts)

\* C16 as claimed: a call whose last text does not parse as the schema its
\* author declares returns None and has printed the stage's name, the response
\* text and the parse error.
C16_SchemaViolationReported ==
  (pc = "returned" /\ LastText # None /\ "UpstreamError" \notin printed
     /\ ~Conforms(events[Len(events)].author, LastText))
  => /\ results = None
     /\ {"stage_name", "raw_response", "parse_error"} \subseteq printed

\* C17: a call calls runner.run at most once, and when runner.run raised, the
\* call has returned None, has written neither HTML file and opened no tab.
C17_RunnerFailureEndsRun ==
  /\ runner_calls <= 1
  /\ "UpstreamError" \in printed =>
       /\ pc = "returned" /\ results = None
       /\ runner_calls = 1
       /\ dashboard_file.run # run_no /\ report_file.run # run_no
       /\ opened = <<>>

\* the second call's runner raised after two events, the first call having
\* written both files
C17_Witness ==
  /\ run_no = 2 /\ "UpstreamError" \in printed
  /\ Len(events) = 2
  /\ dashboard_file.run = 1 /\ report_file.run = 1

WrittenByThisCall(file) == run_no >= 1 /\ file.run = run_no

\* C21: in a call, the report file is written only after the dashboard file, a
\* tab is opened only after both files are written, the tabs are the dashboard
\* and then the report, each showing what this call wrote, and a call that
\* returned a dictionary has written both files and opened both tabs.
C21_RenderThenOpenThenReturn ==
  /\ WrittenByThisCall(report_file) => WrittenByThisCall(dashboard_file)
  /\ opened # <<>> =>
       WrittenByThisCall(dashboard_file) /\ WrittenByThisCall(report_file)
  /\ Len(opened) <= 2
  /\ Len(opened) >= 1 =>
       opened[1] = [file |-> "dashboard", shows |-> [run |-> run_no, doc |-> analysis_results]]
  /\ Len(opened) = 2 =>
       opened[2] = [file |-> "report", shows |-> [run |-> run_no, doc |-> analysis_results]]
  /\ (pc = "returned" /\ results # None) =>
       /\ WrittenByThisCall(dashboard_file) /\ WrittenByThisCall(report_file)
       /\ Len(opened) = 2
       /\ results = analysis_results

\* the second call returned its dictionary after writing both files and opening
\* both tabs
C21_Witness ==
  /\ run_no = 2 /\ pc = "returned" /\ results # None
  /\ Len(opened) = 2
  /\ dashboard_file.run = 2 /\ report_file.run = 2

\* C22 as claimed: no call of run_carbon_analysis ends with an exception raised
\* to its caller.
C22_NeverRaises == pc # "raised"

\* the first part with a non-empty text, found going through the parts in order
RECURSIVE FirstNonEmptyText(_)
FirstNonEmptyText(parts) ==
  IF parts = <<>> THEN None
  ELSE IF Head(parts) # NoText THEN Head(parts)
  ELSE FirstNonEmptyText(Tail(parts))

\* C24: when a call has returned and the runner did not raise, what it parsed
\* and returned is given by its last event alone: None without events or
\* without a text in the last event, whatever earlier events held; else the
\* dictionary parsed from the first non-empty text part of the last event, which
\* is returned when it renders, None being returned when it does not parse or
\* render.
C24_ResultFromLastEventOnly ==
  (pc = "returned" /\ runner_calls = 1 /\ "UpstreamError" \notin printed) =>
    IF events = <<>> \/ FirstNonEmptyText(events[Len(events)].parts) = None
    THEN results = None /\ analysis_results = None
    ELSE LET parsed == ExtractJson(FirstNonEmptyText(events[Len(events)].parts))
         IN  IF parsed.kind = "parsed"
             THEN /\ analysis_results = parsed.value
                  /\ results = IF ReportRenders(parsed.value) /\ DashboardRenders(parsed.value)
                               THEN parsed.value ELSE None
             ELSE results = None /\ analysis_results = None

\* a call that returned None because its last event had no text, an earlier
\* event having carried a dictionary that renders
C24_Witness ==
  /\ pc = "returned" /\ results = None /\ "UpstreamError" \notin printed
  /\ Len(events) >= 2
  /\ FirstText(events[1].parts) = VisualizerJson
  /\ FirstText(events[Len(events)].parts) = None

(* --------------- specification: business requirements ----------------- *)

\* contents of business_requirements.json, as characters; "CR" and "LF" are the
\* carriage return and the line feed
RequirementsTexts == { <<"x">>, <<"y">>, <<"x", "CR", "LF", "y">> }

\* "No business requirements found."
Placeholder == <<"No business requirements found.">>

\* f.read() of a file opened with open(req_path, 'r'): the whole content, with
\* the line ends "\r\n" and "\r" translated to "\n"
RECURSIVE ReadText(_)
ReadText(content) ==
  IF content = <<>> THEN <<>>
  ELSE IF Head(content) = "CR"
       THEN IF Len(content) >= 2 /\ content[2] = "LF"
            THEN <<"LF">> \o ReadText(SubSeq(content, 3, Len(content)))
            ELSE <<"LF">> \o ReadText(Tail(content))
  ELSE <<Head(content)>> \o ReadText(Tail(content))

\* the try/except at the top of loop_agent/agent.py: only FileNotFoundError is caught
LoadRequirementsUncaughtMutant(file) ==
  IF file.state = "present"
  THEN [raised |-> FALSE, text |-> ReadText(file.content)]
  ELSE [raised |-> TRUE, text |-> None]

LoadRequirements(file) ==
  IF file.state = "absent" THEN [raised |-> FALSE, text |-> Placeholder]
  ELSE IF file.state = "unreadable" THEN [raised |-> TRUE, text |-> None]
  ELSE [raised |-> FALSE, text |-> ReadText(file.content)]

InitReq ==
  /\ requirements_file \in
       {NoRequirementsFile, [state |-> "unreadable", content |-> <<"x">>]}
         \cup {[state |-> "present", content |-> t] : t \in RequirementsTexts}
  /\ loop_state = "unloaded"
  /\ business_requirements = None /\ instruction_requirements = None
  /\ proc_runs = 0 /\ file_at_last_run = NoRequirementsFile /\ used_requirements = None
  /\ ExtractIdle /\ AnalyzerIdle /\ RunIdle /\ ConcIdle

\* a writer outside the code overwrites the file with a new content
WriteRequirements(text) ==
  /\ requirements_file # [state |-> "present", content |-> text]
  /\ requirements_file' = [state |-> "present", content |-> text]
  /\ UNCHANGED <<loop_state, business_requirements, instruction_requirements,
                 proc_runs, file_at_last_run, used_requirements,
                 extractVars, analyzerVars, runVars, concVars>>

\* something outside the code deletes the file
RemoveRequirements ==
  /\ requirements_file.state # "absent"
  /\ requirements_file' = NoRequirementsFile
  /\ UNCHANGED <<loop_state, business_requirements, instruction_requirements,
                 proc_runs, file_at_last_run, used_requirements,
                 extractVars, analyzerVars, runVars, concVars>>

\* import of loop_agent/agent.py: the file is read once and its text is
\* formatted into the instruction string of loop_agent
ImportLoopAgent ==
  /\ loop_state = "unloaded"
  /\ LET loaded == LoadRequirements(requirements_file)
     IN  IF loaded.raised
         THEN /\ loop_state' = "raised"
              /\ UNCHANGED <<business_requirements, instruction_requirements>>
         ELSE /\ loop_state' = "loaded"
              /\ business_requirements' = loaded.text
              /\ instruction_requirements' = loaded.text
  /\ UNCHANGED <<requirements_file, proc_runs, file_at_last_run, used_requirements,
                 extractVars, analyzerVars, runVars, concVars>>

\* a pipeline run in the process: the prompt of loop_agent is its instruction
\* string as it was built at import
RunPipeline ==
  /\ loop_state = "loaded"
  /\ proc_runs < MaxRuns
  /\ proc_runs' = proc_runs + 1
  /\ used_requirements' = instruction_requirements
  /\ file_at_last_run' = requirements_file
  /\ UNCHANGED <<requirements_file, loop_state, business_requirements,
                 instruction_requirements, extractVars, analyzerVars, runVars,
                 concVars>>

\* the process ends; a later process imports the modules again
ExitProcess ==
  /\ loop_state \in {"loaded", "raised"}
  /\ loop_state' = "unloaded"
  /\ business_requirements' = None /\ instruction_requirements' = None
  /\ proc_runs' = 0 /\ file_at_last_run' = NoRequirementsFile
  /\ used_requirements' = None
  /\ UNCHANGED <<requirements_file, extractVars, analyzerVars, runVars, concVars>>

NextReq ==
  \/ \E text \in RequirementsTexts : WriteRequirements(text)
  \/ RemoveRequirements
  \/ ImportLoopAgent
  \/ RunPipeline
  \/ ExitProcess

SpecReq == InitReq /\ [][NextReq]_vars

(* ------------------- claims: business requirements -------------------- *)

\* C8: an import of loop_agent that finds no business_requirements.json does
\* not raise and leaves the placeholder text in business_requirements and in the
\* instruction, with loop_agent loaded, which is all a pipeline run asks for.
C8_AbsentFileGivesPlaceholder ==
  [][ (loop_state = "unloaded" /\ loop_state' # "unloaded"
         /\ requirements_file.state = "absent")
      => /\ loop_state' = "loaded"
         /\ business_requirements' = Placeholder
         /\ instruction_requirements' = Placeholder ]_vars

\* a pipeline run made with the placeholder while the file is absent
C8_Witness ==
  /\ requirements_file.state = "absent"
  /\ loop_state = "loaded"
  /\ business_requirements = Placeholder
  /\ proc_runs >= 1 /\ used_requirements = Placeholder

\* C10 as claimed: when the file's content changed since the previous run of
\* the same process, the prompt of the next run holds the new content.
C10_NextRunSeesNewContent ==
  [][ (proc_runs >= 1 /\ proc_runs' = proc_runs + 1
         /\ requirements_file.state = "present"
         /\ requirements_file # file_at_last_run)
      => used_requirements' = ReadText(requirements_file.content) ]_vars

(* ------------- specification: two calls at the same time -------------- *)

\* the dictionaries the two calls parse: one both renderers accept, a second
\* such one, and one only create_dashboard accepts
JobDocs == { <<"{", "d", "r", "}">>, <<"{", "k", "d", "r", "}">>, <<"{", "d", "}">> }

InitConcurrent ==
  /\ job_pc = [j \in Jobs |-> "collect"]
  /\ job_analysis_results = [j \in Jobs |-> None]
  /\ job_results = [j \in Jobs |-> None]
  /\ job_opened = [j \in Jobs |-> <<>>]
  /\ shared_dashboard_file = NoFile /\ shared_report_file = NoFile
  /\ ExtractIdle /\ AnalyzerIdle /\ RunIdle /\ ReqIdle

\* Step 4 of call j ends with a parsed dictionary
JobParse(j, doc) ==
  /\ job_pc[j] = "collect"
  /\ job_analysis_results' = [job_analysis_results EXCEPT ![j] = doc]
  /\ job_pc' = [job_pc EXCEPT ![j] = "save_dashboard"]
  /\ UNCHANGED <<job_results, job_opened, shared_dashboard_file, shared_report_file,
                 extractVars, analyzerVars, runVars, reqVars>>

\* save_dashboard(analysis_results, "carbon_analysis_dashboard.html") of call j:
\* the file name is the same for every call
JobSaveDashboard(j) ==
  /\ job_pc[j] = "save_dashboard"
  /\ IF DashboardRenders(job_analysis_results[j])
     THEN /\ shared_dashboard_file' = [run |-> j, doc |-> job_analysis_results[j]]
          /\ job_pc' = [job_pc EXCEPT ![j] = "save_report"]
     ELSE /\ job_pc' = [job_pc EXCEPT ![j] = "returned"]
          /\ UNCHANGED shared_dashboard_file
  /\ UNCHANGED <<job_analysis_results, job_results, job_opened, shared_report_file,
                 extractVars, analyzerVars, runVars, reqVars>>

\* save_report(analysis_results, "carbon_analysis_report.html") of call j
JobSaveReport(j) ==
  /\ job_pc[j] = "save_report"
  /\ IF ReportRenders(job_analysis_results[j])
     THEN /\ shared_report_file' = [run |-> j, doc |-> job_analysis_results[j]]
          /\ job_pc' = [job_pc EXCEPT ![j] = "open_dashboard"]
     ELSE /\ job_pc' = [job_pc EXCEPT ![j] = "returned"]
          /\ UNCHANGED shared_report_file
  /\ UNCHANGED <<job_analysis_results, job_results, job_opened, shared_dashboard_file,
                 extractVars, analyzerVars, runVars, reqVars>>

\* webbrowser.open of the dashboard's path by call j: the tab shows the file as
\* it is now
JobOpenDashboard(j) ==
  /\ job_pc[j] = "open_dashboard"
  /\ job_opened' = [job_opened EXCEPT ![j] =
       Append(@, [file |-> "dashboard", shows |-> shared_dashboard_file])]
  /\ job_pc' = [job_pc EXCEPT ![j] = "open_report"]
  /\ UNCHANGED <<job_analysis_results, job_results, shared_dashboard_file,
                 shared_report_file, extractVars, analyzerVars, runVars, reqVars>>

\* webbrowser.open of the report's path by call j, then return analysis_results
JobOpenReport(j) ==
  /\ job_pc[j] = "open_report"
  /\ job_opened' = [job_opened EXCEPT ![j] =
       Append(@, [file |-> "report", shows |-> shared_report_file])]
  /\ job_results' = [job_results EXCEPT ![j] = job_analysis_results[j]]
  /\ job_pc' = [job_pc EXCEPT ![j] = "returned"]
  /\ UNCHANGED <<job_analysis_results, shared_dashboard_file, shared_report_file,
                 extractVars, analyzerVars, runVars, reqVars>>

NextConcurrent ==
  \E j \in Jobs :
    \/ \E doc \in JobDocs : JobParse(j, doc)
    \/ JobSaveDashboard(j)
    \/ JobSaveReport(j)
    \/ JobOpenDashboard(j)
    \/ JobOpenReport(j)

SpecConcurrent == InitConcurrent /\ [][NextConcurrent]_vars

(* ------------------- claims: two calls at the same time ---------------- *)

Running(j) == job_pc[j] \notin {"off", "returned"}

\* C20 as claimed: of two calls running at the same time, neither writes over
\* an HTML file the other wrote, and neither opens in the browser a file the
\* other wrote.
C20_RunsShareNoOutput ==
  [][ \A j \in Jobs : \A other \in Jobs \ {j} :
        (Running(j) /\ Running(other)) =>
          /\ (shared_dashboard_file' # shared_dashboard_file
                /\ shared_dashboard_file'.run = j)
               => shared_dashboard_file.run # other
          /\ (shared_report_file' # shared_report_file
                /\ shared_report_file'.run = j)
               => shared_report_file.run # other
          /\ job_opened'[j] # job_opened[j]
               => job_opened'[j][Len(job_opened'[j])].shows.run # other ]_vars

====
